---- MODULE Spec2Model ----
(***************************************************************************)
(* ImpactGuard: the background task lifecycle of the simulated assessment  *)
(* (run_mock_test), the executor that runs it, and the session state the   *)
(* render cycle keeps.  Two programs share this code: the single-file      *)
(* application guared.py and the modular application main.py with          *)
(* session_state.py / security_tests.py.  The variable app says which of   *)
(* the two is running; every operation is translated from both.            *)
(*                                                                         *)
(* A progress value k/total_steps is represented by its numerator k.       *)
(* Python's None is the string "None"; an empty dict and an empty list are *)
(* both the empty function.                                                *)
(***************************************************************************)
EXTENDS Integers, Sequences, FiniteSets, TLC

VARIABLES
    app,            \* "guared" or "modular": which program is running
    cfg,            \* what the explored runs range over, fixed by Init:
                    \*   steps (total_steps), submits (submissions per session),
                    \*   targets, vectorSets (arguments of a submission),
                    \*   draws (outcomes of random.random() < 0.2),
                    \*   choose (which entries random.choice may return),
                    \*   faulty (the session-state keys whose writes raise)
    ss,             \* st.session_state: a function from the present keys to values
    arg,            \* arg[t]: the arguments (target, test_vectors) of work item t
    pc,             \* pc[t]: position of work item t
    i,              \* i[t]: number of loop iterations of t whose tick is complete
    results,        \* results[t]: the local variable results of run_mock_test
    fut,            \* fut[t]: outcome stored in the Future of t
    written,        \* written[t]: the values t wrote to progress, in order
    exc,            \* exc[t]: str(e) of the exception raised inside t's body (None: none)
    cancelAt,       \* cancelAt[t]: ticks t had completed when somebody else first
                    \*   cleared running_test during its run (-1: never)
    cleanup_log,    \* what the last cleanup_threads call logged
    rendered,       \* what the last render cycle (main) reached: the page it
                    \*   rendered and str(e) of the exception its handler caught
    call            \* the last call of a citation or display helper: the
                    \*   function, where it is, what it did and returned

vars == <<app, cfg, ss, arg, pc, i, results, fut, written, exc, cancelAt, cleanup_log,
          rendered, call>>

----------------------------------------------------------------------------
(* Sizes of the model *)

TotalSteps == 2          \* total_steps of a run (100 in the programs)
MaxSubmits == 2          \* submissions in one session
RunSubmits == 1          \* submissions in a session of the single-run specification
PoolSteps == 1           \* total_steps of a run in the executor specification
PoolSubmits == 5         \* submissions in the executor specification
MaxRetries == 3          \* largest retries argument of retry_request

MaxWorkers == 4          \* ThreadPoolExecutor(max_workers=4)
TestsPerVector == 10     \* len(test_vectors) * 10
DefaultRetries == 3      \* retry_request(url, method='head', retries=3, timeout=5)

None == "None"
EmptyDict == [k \in {} |-> None]
Timestamp == "isoformat"

----------------------------------------------------------------------------
(* Inputs *)

SqlInjection == [id |-> "sql_injection", name |-> "SQL Injection", severity |-> "high"]
Xss == [id |-> "xss", name |-> "Cross-Site Scripting", severity |-> "medium"]
PromptInjection == [id |-> "prompt_injection", name |-> "Prompt Injection", severity |-> "critical"]

get_mock_test_vectors == <<SqlInjection, Xss, PromptInjection>>

LowVector == [id |-> "custom_low", name |-> "Custom", severity |-> "low"]
InfoVector == [id |-> "custom_info", name |-> "Custom", severity |-> "info"]
BrokenVector == [id |-> "custom_broken", name |-> "Custom"]

VectorSets ==
    { get_mock_test_vectors, << >>, <<LowVector, InfoVector>>, <<BrokenVector>> }

DemoTarget == [name |-> "demo-model"]
NamelessTarget == [endpoint |-> "http://localhost"]
Targets == { DemoTarget, NamelessTarget }

----------------------------------------------------------------------------
(* Session state *)

KeyOrder ==
    << "targets", "test_results", "running_test", "progress",
       "vulnerabilities_found", "current_theme", "current_page",
       "active_threads", "error_message", "bias_results", "show_bias_results",
       "carbon_tracking_active", "carbon_measurements", "VALIDATION_STRICTNESS",
       "reports", "insights" >>

Keys == { KeyOrder[n] : n \in 1..Len(KeyOrder) }

\* Defaults in which a new session starts with the light theme
DefaultsLightTheme ==
    [ targets |-> << >>, test_results |-> EmptyDict, running_test |-> FALSE,
      progress |-> 0, vulnerabilities_found |-> 0, current_theme |-> "light",
      current_page |-> "Dashboard", active_threads |-> << >>,
      error_message |-> None, bias_results |-> EmptyDict,
      show_bias_results |-> FALSE, carbon_tracking_active |-> FALSE,
      carbon_measurements |-> << >>, VALIDATION_STRICTNESS |-> 2,
      reports |-> << >>, insights |-> << >> ]

Defaults ==
    [ targets |-> << >>, test_results |-> EmptyDict, running_test |-> FALSE,
      progress |-> 0, vulnerabilities_found |-> 0, current_theme |-> "dark",
      current_page |-> "Dashboard", active_threads |-> << >>,
      error_message |-> None, bias_results |-> EmptyDict,
      show_bias_results |-> FALSE, carbon_tracking_active |-> FALSE,
      carbon_measurements |-> << >>, VALIDATION_STRICTNESS |-> 2,
      reports |-> << >>, insights |-> << >> ]

\* dict[key] = value: the key is inserted when absent
SetKey(s, key, value) ==
    [k \in (DOMAIN s) \cup {key} |-> IF k = key THEN value ELSE s[k]]

\* A setdefault that assigns unconditionally
SetDefaultOverwrites(s, key, value) == SetKey(s, key, value)

\* dict.setdefault(key, value) / "if key not in st.session_state: ... = value"
SetDefault(s, key, value) == IF key \in DOMAIN s THEN s ELSE SetKey(s, key, value)

\* str(e) of the exception a failing write of key raises
WriteError(key) == "cannot set " \o key

\* The try block of initialize_session_state after its first n insertions:
\* the state reached and str(e) of the exception that left the block (None:
\* none).  Inserting an absent key whose writes raise leaves the block.
RECURSIVE InitDefaults(_, _)
InitDefaults(s, n) ==
    IF n = 0 THEN [ss |-> s, raised |-> None]
    ELSE LET before == InitDefaults(s, n - 1)
             key    == KeyOrder[n]
         IN  IF before.raised # None THEN before
             ELSE IF key \notin DOMAIN before.ss /\ key \in cfg.faulty
             THEN [ss |-> before.ss, raised |-> WriteError(key)]
             ELSE [ss |-> SetDefault(before.ss, key, Defaults[key]), raised |-> None]

\* display_error(message): error_message = message; a failure of that write
\* is caught and logged.
display_error(s, message) ==
    IF "error_message" \in cfg.faulty THEN s ELSE SetKey(s, "error_message", message)

\* initialize_session_state(): the state it leaves
initialize_session_state(s) ==
    LET r == InitDefaults(s, Len(KeyOrder))
    IN  IF r.raised = None THEN r.ss
        ELSE display_error(r.ss, "Failed to initialize application state: " \o r.raised)

----------------------------------------------------------------------------
(* Handles: everything the programs put in active_threads is a            *)
(* concurrent.futures.Future returned by ThreadPoolExecutor.submit.        *)

FutureAttributes ==
    { "cancel", "cancelled", "running", "done", "result", "exception",
      "add_done_callback", "set_running_or_notify_cancel", "set_result",
      "set_exception" }

HasAttr(handle, attribute) == attribute \in FutureAttributes

AttributeErrorIsAlive == "'Future' object has no attribute 'is_alive'"

\* [thread for thread in active if thread.is_alive()]: evaluating
\* thread.is_alive on an object without that attribute raises AttributeError.
\* alive is the set of handles for which is_alive() would return True.
AliveFilter(active, alive) ==
    IF \E n \in 1..Len(active) : ~HasAttr(active[n], "is_alive")
    THEN [raised |-> AttributeErrorIsAlive, value |-> << >>]
    ELSE [raised |-> None,
          value |-> SelectSeq(active, LAMBDA h : h \in alive)]

\* cleanup_threads without its try/except: the AttributeError leaves the function
cleanup_threads_uncaught(a, s, alive) ==
    LET present == "active_threads" \in DOMAIN s
        active  == IF present THEN s["active_threads"] ELSE << >>
        kept    == AliveFilter(active, alive)
    IN  IF a = "guared" /\ ~present
        THEN [ss |-> s, log |-> None, raised |-> None]
        ELSE IF kept.raised # None
        THEN [ss |-> s, log |-> None, raised |-> kept.raised]
        ELSE IF "active_threads" \in cfg.faulty
        THEN [ss |-> s, log |-> None, raised |-> WriteError("active_threads")]
        ELSE [ss |-> SetKey(s, "active_threads", kept.value),
              log |-> IF Len(kept.value) > 0
                      THEN "Active threads: " \o ToString(Len(kept.value))
                      ELSE None,
              raised |-> None]

\* cleanup_threads(): the new session state, what was logged, and the
\* exception that leaves the function (None: it returns normally).
cleanup_threads(a, s, alive) ==
    LET present == "active_threads" \in DOMAIN s
        active  == IF present THEN s["active_threads"] ELSE << >>
        kept    == AliveFilter(active, alive)
    IN  IF a = "guared" /\ ~present
        THEN [ss |-> s, log |-> None, raised |-> None]
        ELSE IF kept.raised # None
        THEN [ss |-> s,
              log |-> "Error cleaning up threads: " \o kept.raised,
              raised |-> None]
        ELSE IF "active_threads" \in cfg.faulty
        THEN [ss |-> s,
              log |-> "Error cleaning up threads: " \o WriteError("active_threads"),
              raised |-> None]
        ELSE [ss |-> SetKey(s, "active_threads", kept.value),
              log |-> IF Len(kept.value) > 0
                      THEN "Active threads: " \o ToString(Len(kept.value))
                      ELSE None,
              raised |-> None]

----------------------------------------------------------------------------
(* run_mock_test *)

\* A weight table whose default for an unknown severity is 0
severity_weight_default_zero(severity) ==
    CASE severity = "low" -> 1
      [] severity = "medium" -> 2
      [] severity = "high" -> 3
      [] severity = "critical" -> 5
      [] OTHER -> 0

severity_weight(severity) ==
    CASE severity = "low" -> 1
      [] severity = "medium" -> 2
      [] severity = "high" -> 3
      [] severity = "critical" -> 5
      [] OTHER -> 1

NewResults(a, target) ==
    IF a = "modular"
    THEN [summary |-> [total_tests |-> 0, vulnerabilities_found |-> 0, risk_score |-> 0],
          vulnerabilities |-> << >>,
          timestamp |-> Timestamp,
          target |-> target.name]
    ELSE [summary |-> [total_tests |-> 0, vulnerabilities_found |-> 0, risk_score |-> 0],
          vulnerabilities |-> << >>,
          test_details |-> EmptyDict]

\* A vulnerability numbered from 0: the length of the list before the append
VulnerabilityNumberedFromZero(res, vector, target) ==
    [id |-> "VULN-" \o ToString(Len(res.vulnerabilities)),
     test_vector |-> vector.id,
     test_name |-> vector.name,
     severity |-> vector.severity,
     details |-> "Mock vulnerability from " \o target.name \o " using " \o vector.name,
     timestamp |-> Timestamp]

Vulnerability(res, vector, target) ==
    [id |-> "VULN-" \o ToString(Len(res.vulnerabilities) + 1),
     test_vector |-> vector.id,
     test_name |-> vector.name,
     severity |-> vector.severity,
     details |-> "Mock vulnerability from " \o target.name \o " using " \o vector.name,
     timestamp |-> Timestamp]

\* A tick that appends the vulnerability without counting it in the summary
AddVulnerabilityUncounted(res, vector, target) ==
    [res EXCEPT !.vulnerabilities = Append(@, Vulnerability(res, vector, target)),
                !.summary.risk_score = @ + severity_weight(vector.severity)]

\* A tick that appends the synthesized vulnerability twice
AddVulnerabilityTwice(res, vector, target) ==
    [res EXCEPT !.vulnerabilities = Append(Append(@, Vulnerability(res, vector, target)),
                                           Vulnerability(res, vector, target)),
                !.summary.vulnerabilities_found = @ + 1,
                !.summary.risk_score = @ + severity_weight(vector.severity)]

AddVulnerability(res, vector, target) ==
    [res EXCEPT !.vulnerabilities = Append(@, Vulnerability(res, vector, target)),
                !.summary.vulnerabilities_found = @ + 1,
                !.summary.risk_score = @ + severity_weight(vector.severity)]

\* total_tests computed from the vulnerabilities found instead of the vectors
CompleteResultsCountsFound(a, res, target, test_vectors) ==
    LET r == [res EXCEPT !.summary.total_tests = Len(res.vulnerabilities) * TestsPerVector]
    IN  IF a = "guared"
        THEN [k \in (DOMAIN r) \cup {"timestamp", "target"} |->
                CASE k = "timestamp" -> Timestamp
                  [] k = "target" -> target.name
                  [] OTHER -> r[k]]
        ELSE r

CompleteResults(a, res, target, test_vectors) ==
    LET r == [res EXCEPT !.summary.total_tests = Len(test_vectors) * TestsPerVector]
    IN  IF a = "guared"
        THEN [k \in (DOMAIN r) \cup {"timestamp", "target"} |->
                CASE k = "timestamp" -> Timestamp
                  [] k = "target" -> target.name
                  [] OTHER -> r[k]]
        ELSE r

\* An error result that also carries an empty summary
ErrorResultWithSummary(a, message) ==
    [error |-> TRUE, error_message |-> message, timestamp |-> Timestamp,
     summary |-> [total_tests |-> 0, vulnerabilities_found |-> 0, risk_score |-> 0]]

ErrorResult(a, message) ==
    IF a = "guared"
    THEN [error |-> TRUE, error_message |-> message,
          traceback |-> "traceback", timestamp |-> Timestamp]
    ELSE [error |-> TRUE, error_message |-> message]

\* A run_mock_test without the finally block
FinallySkipped(s) == s

\* finally: st.session_state.running_test = False
Finally(s) == SetKey(s, "running_test", FALSE)

\* A return that marks the result of a run that found the flag cleared
ReturnResultsMarksCancelled(a, s, res, target, test_vectors) ==
    LET c == CompleteResults(a, res, target, test_vectors)
        r == [k \in (DOMAIN c) \cup {"cancelled"} |->
                IF k = "cancelled" THEN ~s["running_test"] ELSE c[k]]
    IN  [ss  |-> Finally(IF a = "guared" THEN SetKey(s, "test_results", r) ELSE s),
         fut |-> [state |-> "finished", result |-> r, exception |-> None]]

\* The loop is left (exhausted or break): results completed, stored and returned.
ReturnResults(a, s, res, target, test_vectors) ==
    LET r == CompleteResults(a, res, target, test_vectors)
    IN  [ss  |-> Finally(IF a = "guared" THEN SetKey(s, "test_results", r) ELSE s),
         fut |-> [state |-> "finished", result |-> r, exception |-> None]]

\* A handler that records the error and re-raises it to the executor
OnExceptionReraised(a, s, message) ==
    [ss  |-> Finally(SetKey(s, "error_message", "Test execution failed: " \o message)),
     fut |-> [state |-> "finished", result |-> None, exception |-> message]]

\* A handler that returns the error result without setting error_message
OnExceptionSilent(a, s, message) ==
    [ss  |-> Finally(s),
     fut |-> [state |-> "finished", result |-> ErrorResult(a, message), exception |-> None]]

\* except Exception as e, with message = str(e)
OnException(a, s, message) ==
    [ss  |-> Finally(SetKey(s, "error_message", "Test execution failed: " \o message)),
     fut |-> [state |-> "finished", result |-> ErrorResult(a, message), exception |-> None]]

\* progress written from the loop index before it is advanced: i / total_steps
ProgressAfterStale(iteration) == iteration

\* progress counted down from total_steps
ProgressAfterCountdown(iteration) == cfg.steps - iteration

\* st.session_state.progress = (i + 1) / total_steps, as a numerator
ProgressAfter(iteration) == iteration + 1

KeyErrorName == "'name'"
KeyErrorSeverity == "'severity'"
IndexErrorChoice == "Cannot choose from an empty sequence"

----------------------------------------------------------------------------
(* The executor and the work items *)

Tasks == DOMAIN pc
Running(t) == pc[t] \in {"check", "sleep"}
RunningTasks == { t \in Tasks : Running(t) }
Unfinished == { t \in Tasks : pc[t] \in {"queued", "check", "sleep"} }

\* A submission that returns the handle without tracking it
TrackHandleForgotten(a, s, handle) == [ss |-> s, returned |-> handle]

\* submit_test (guared.py) / start_security_test (security_tests.py) after
\* executor.submit returned the handle: the handle is tracked and returned.
\* guared.py: active_threads.append raises when the key is absent, the
\* except branch returns None.
TrackHandle(a, s, handle) ==
    IF a = "guared"
    THEN IF "active_threads" \in DOMAIN s
         THEN [ss |-> SetKey(s, "active_threads", Append(s["active_threads"], handle)),
               returned |-> handle]
         ELSE [ss |-> s, returned |-> None]
    ELSE LET d == SetDefault(s, "active_threads", << >>)
         IN  [ss |-> SetKey(d, "active_threads", Append(d["active_threads"], handle)),
              returned |-> handle]

\* A pool that starts a thread for every submission
WorkerAlwaysFree(running) == TRUE

\* A worker thread of the pool is idle
WorkerFree(running) == Cardinality(running) < MaxWorkers

\* The somebody-else-cleared-the-flag bookkeeping: every work item of
\* others that is inside run_mock_test and not yet marked gets marked.
Mark(others) ==
    [t \in Tasks |->
        IF t \in others /\ Running(t) /\ cancelAt[t] = -1 THEN i[t] ELSE cancelAt[t]]

TypeOK ==
    /\ app \in {"guared", "modular"}
    /\ \A t \in Tasks :
        /\ pc[t] \in {"unsubmitted", "queued", "check", "sleep", "done"}
        /\ i[t] \in 0..cfg.steps
        /\ written[t] \in Seq(0..cfg.steps)
        /\ fut[t].state \in {"none", "pending", "running", "finished"}
        /\ cancelAt[t] \in -1..cfg.steps

\* No helper has been called
NoCall == [fn |-> None, pc |-> "idle"]

\* Work item t has not been submitted: it has no arguments yet
NoArguments == [submitted |-> FALSE]

\* run_mock_test has not yet assigned its local variable results
Unbound == [bound |-> FALSE]

InitTasks(c) ==
    /\ cfg = c
    /\ arg = [t \in 1..c.submits |-> NoArguments]
    /\ pc = [t \in 1..c.submits |-> "unsubmitted"]
    /\ i = [t \in 1..c.submits |-> 0]
    /\ results = [t \in 1..c.submits |-> Unbound]
    /\ fut = [t \in 1..c.submits |-> [state |-> "none"]]
    /\ written = [t \in 1..c.submits |-> << >>]
    /\ exc = [t \in 1..c.submits |-> None]
    /\ cancelAt = [t \in 1..c.submits |-> -1]
    /\ cleanup_log = None
    /\ rendered = [page |-> None, critical |-> None]
    /\ call = NoCall

\* The vector sets a session of program a can submit: start_security_test
\* always passes get_mock_test_vectors(), submit_test passes its argument.
SessionVectorSets(a) ==
    IF a = "modular" THEN { {get_mock_test_vectors} } ELSE { {v} : v \in VectorSets }

\* A new browser session: the session state is empty.  One session submits
\* one vector set, and its ticks either all draw a vulnerability or none
\* does (SpecRun explores every sequence of draws and every choice);
\* random.choice is explored for the first entry only.
Init ==
    /\ app \in {"guared", "modular"}
    /\ ss = EmptyDict
    /\ \E vs \in SessionVectorSets(app), dr \in {{FALSE}, {TRUE}} :
          InitTasks([steps |-> TotalSteps, submits |-> MaxSubmits,
                     targets |-> Targets, vectorSets |-> vs,
                     draws |-> dr, choose |-> "first", faulty |-> {}])

\* The pages main() of guared.py routes to
GuaredPages ==
    { "Dashboard", "Target Management", "Test Configuration", "Run Assessment",
      "Results Analyzer", "Report Generator", "Citation Tool", "Insight Assistant",
      "Run Tests" }

\* str(e) of the AttributeError st.session_state.<key> raises for an absent key
MissingKey(key) == "st.session_state has no attribute " \o key

\* main() after cleanup_threads(): the error banner, the sidebar and the
\* page.  guared.py reads error_message and current_page as attributes inside
\* its try block, whose handler reports a critical application error;
\* main.py reads both with .get and has no handler.
page_router(a, s) ==
    IF a = "modular"
    THEN [ss |-> s,
          page |-> IF "current_page" \in DOMAIN s THEN s["current_page"] ELSE "Dashboard",
          critical |-> None]
    ELSE IF "error_message" \notin DOMAIN s
    THEN [ss |-> s, page |-> None, critical |-> MissingKey("error_message")]
    ELSE IF "current_page" \notin DOMAIN s
    THEN [ss |-> s, page |-> None, critical |-> MissingKey("current_page")]
    ELSE IF s["current_page"] \in GuaredPages
    THEN [ss |-> s, page |-> s["current_page"], critical |-> None]
    ELSE IF "current_page" \in cfg.faulty
    THEN [ss |-> s, page |-> None, critical |-> WriteError("current_page")]
    ELSE [ss |-> SetKey(s, "current_page", "Dashboard"), page |-> "Dashboard",
          critical |-> None]

\* main(): initialize_session_state(), cleanup_threads(), then the page.
Render ==
    LET c == cleanup_threads(app, initialize_session_state(ss), Unfinished)
        r == page_router(app, c.ss)
    IN  /\ ss' = r.ss
        /\ cleanup_log' = c.log
        /\ rendered' = [page |-> r.page, critical |-> r.critical]
        /\ UNCHANGED <<call, app, cfg, arg, pc, i, results, fut, written, exc, cancelAt>>

\* main(): the "Clear Error" button, shown while error_message is set.
ClearError ==
    /\ Keys \subseteq DOMAIN ss
    /\ ss["error_message"] # None
    /\ ss' = SetKey(ss, "error_message", None)
    /\ UNCHANGED <<rendered, call, app, cfg, arg, pc, i, results, fut, written, exc, cancelAt, cleanup_log>>

\* A page of the render cycle submits an assessment.
Submit(t, target, test_vectors) ==
    /\ Keys \subseteq DOMAIN ss
    /\ pc[t] = "unsubmitted"
    /\ \A u \in Tasks : u < t => pc[u] # "unsubmitted"
    /\ LET r == TrackHandle(app, ss, t)
       IN  /\ ss' = r.ss
           /\ arg' = [arg EXCEPT ![t] = [target |-> target, test_vectors |-> test_vectors,
                                         handle |-> r.returned]]
    /\ pc' = [pc EXCEPT ![t] = "queued"]
    /\ fut' = [fut EXCEPT ![t] = [state |-> "pending"]]
    /\ UNCHANGED <<rendered, call, app, cfg, i, results, written, exc, cancelAt, cleanup_log>>

\* The presentation layer requests cancellation: running_test = False.
Cancel ==
    /\ Keys \subseteq DOMAIN ss
    /\ ss["running_test"] = TRUE
    /\ ss' = SetKey(ss, "running_test", FALSE)
    /\ cancelAt' = Mark(Tasks)
    /\ UNCHANGED <<rendered, call, app, cfg, arg, pc, i, results, fut, written, exc, cleanup_log>>

\* Work item t leaves run_mock_test with outcome out = [ss, fut].
Leave(t, out) ==
    /\ ss' = out.ss
    /\ fut' = [fut EXCEPT ![t] = out.fut]
    /\ pc' = [pc EXCEPT ![t] = "done"]
    /\ cancelAt' = Mark(Tasks \ {t})

\* An exception with str(e) = message is raised inside the try block of t.
Raise(t, s, message) ==
    /\ exc' = [exc EXCEPT ![t] = message]
    /\ Leave(t, OnException(app, s, message))

\* A start that sets running_test but leaves the two counters as they are
StartWithoutReset(t) ==
    /\ pc[t] = "queued"
    /\ \A u \in Tasks : u < t => pc[u] \notin {"unsubmitted", "queued"}
    /\ WorkerFree(RunningTasks)
    /\ written' = [written EXCEPT ![t] = Append(@, ss["progress"])]
    /\ LET s1 == SetKey(ss, "running_test", TRUE)
       IN  IF "name" \in DOMAIN arg[t].target
           THEN /\ ss' = s1
                /\ results' = [results EXCEPT ![t] = NewResults(app, arg[t].target)]
                /\ pc' = [pc EXCEPT ![t] = "check"]
                /\ fut' = [fut EXCEPT ![t] = [state |-> "running"]]
                /\ UNCHANGED <<cancelAt, exc>>
           ELSE /\ Raise(t, s1, KeyErrorName)
                /\ UNCHANGED results
    /\ UNCHANGED <<rendered, call, app, cfg, arg, i, cleanup_log>>

\* A free worker takes the oldest queued work item and enters run_mock_test:
\* the three resets, the log line that reads target['name'], results = {...}.
Start(t) ==
    /\ pc[t] = "queued"
    /\ \A u \in Tasks : u < t => pc[u] \notin {"unsubmitted", "queued"}
    /\ WorkerFree(RunningTasks)
    /\ written' = [written EXCEPT ![t] = Append(@, 0)]
    /\ LET s1 == SetKey(SetKey(SetKey(ss, "progress", 0),
                               "vulnerabilities_found", 0), "running_test", TRUE)
       IN  IF "name" \in DOMAIN arg[t].target
           THEN /\ ss' = s1
                /\ results' = [results EXCEPT ![t] = NewResults(app, arg[t].target)]
                /\ pc' = [pc EXCEPT ![t] = "check"]
                /\ fut' = [fut EXCEPT ![t] = [state |-> "running"]]
                /\ UNCHANGED <<cancelAt, exc>>
           ELSE /\ Raise(t, s1, KeyErrorName)
                /\ UNCHANGED results
    /\ UNCHANGED <<rendered, call, app, cfg, arg, i, cleanup_log>>

\* Top of the loop body: if not st.session_state.running_test: break
Check(t) ==
    /\ pc[t] = "check"
    /\ IF ss["running_test"]
       THEN /\ pc' = [pc EXCEPT ![t] = "sleep"]
            /\ UNCHANGED <<ss, fut, cancelAt>>
       ELSE Leave(t, ReturnResults(app, ss, results[t], arg[t].target, arg[t].test_vectors))
    /\ UNCHANGED exc
    /\ UNCHANGED <<rendered, call, app, cfg, arg, i, results, written, exc, cleanup_log>>

\* The entries of test_vectors that random.choice returns in the explored runs
Choices(tv) == IF cfg.choose = "first" THEN {1} ELSE 1..Len(tv)

\* time.sleep returns: progress is written, a vulnerability is drawn or not,
\* and the loop either goes to its next check or is exhausted.
\* draw: random.random() < 0.2; choice: the index random.choice picks.
Tick(t, draw) ==
    /\ pc[t] = "sleep"
    /\ written' = [written EXCEPT ![t] = Append(@, ProgressAfter(i[t]))]
    /\ LET s1 == SetKey(ss, "progress", ProgressAfter(i[t]))
           s2 == SetKey(s1, "vulnerabilities_found", s1["vulnerabilities_found"] + 1)
           tv == arg[t].test_vectors
       IN  IF ~draw
           THEN /\ results' = results
                /\ i' = [i EXCEPT ![t] = i[t] + 1]
                /\ exc' = exc
                /\ IF i[t] + 1 = cfg.steps
                   THEN Leave(t, ReturnResults(app, s1, results[t], arg[t].target, tv))
                   ELSE /\ ss' = s1
                        /\ pc' = [pc EXCEPT ![t] = "check"]
                        /\ UNCHANGED <<fut, cancelAt>>
           ELSE IF Len(tv) = 0
           THEN /\ Raise(t, s1, IndexErrorChoice)
                /\ UNCHANGED <<i, results>>
           ELSE \E choice \in Choices(tv) :
                IF "severity" \notin DOMAIN tv[choice]
                THEN /\ Raise(t, s1, KeyErrorSeverity)
                     /\ UNCHANGED <<i, results>>
                ELSE LET res == AddVulnerability(results[t], tv[choice], arg[t].target)
                     IN  /\ results' = [results EXCEPT ![t] = res]
                         /\ i' = [i EXCEPT ![t] = i[t] + 1]
                         /\ exc' = exc
                         /\ IF i[t] + 1 = cfg.steps
                            THEN Leave(t, ReturnResults(app, s2, res, arg[t].target, tv))
                            ELSE /\ ss' = s2
                                 /\ pc' = [pc EXCEPT ![t] = "check"]
                                 /\ UNCHANGED <<fut, cancelAt>>
    /\ UNCHANGED <<rendered, call, app, cfg, arg, cleanup_log>>

Next ==
    \/ Render
    \/ ClearError
    \/ Cancel
    \/ \E t \in Tasks, target \in cfg.targets, test_vectors \in cfg.vectorSets :
          Submit(t, target, test_vectors)
    \/ \E t \in Tasks : Start(t)
    \/ \E t \in Tasks : Check(t)
    \/ \E t \in Tasks, draw \in cfg.draws : Tick(t, draw)

Spec == Init /\ [][Next]_vars

----------------------------------------------------------------------------
(* A single run with every entry of the vector set drawn *)

InitRun ==
    /\ app \in {"guared", "modular"}
    /\ ss = EmptyDict
    /\ \E vs \in SessionVectorSets(app) :
          InitTasks([steps |-> TotalSteps, submits |-> RunSubmits,
                     targets |-> Targets, vectorSets |-> vs,
                     draws |-> BOOLEAN, choose |-> "any", faulty |-> {}])

SpecRun == InitRun /\ [][Next]_vars

----------------------------------------------------------------------------
(* The executor under load: more submissions than workers, no cancellation *)
(* request, runs in which no tick draws a vulnerability.                   *)

InitPool ==
    /\ app \in {"guared", "modular"}
    /\ ss = EmptyDict
    /\ InitTasks([steps |-> PoolSteps, submits |-> PoolSubmits,
                  targets |-> {DemoTarget}, vectorSets |-> {get_mock_test_vectors},
                  draws |-> {FALSE}, choose |-> "first", faulty |-> {}])

NextPool ==
    \/ Render
    \/ \E t \in Tasks, target \in cfg.targets, test_vectors \in cfg.vectorSets :
          Submit(t, target, test_vectors)
    \/ \E t \in Tasks : Start(t)
    \/ \E t \in Tasks : Check(t)
    \/ \E t \in Tasks, draw \in cfg.draws : Tick(t, draw)

\* A step of some work item
WorkerStep ==
    \/ \E t \in Tasks : Start(t)
    \/ \E t \in Tasks : Check(t)
    \/ \E t \in Tasks, draw \in cfg.draws : Tick(t, draw)

\* Worker threads are scheduled and time.sleep returns: while some work item
\* can take a step, some work item does.
PoolFairness == WF_vars(WorkerStep)

SpecPool == InitPool /\ [][NextPool]_vars /\ PoolFairness

----------------------------------------------------------------------------
(* initialize_session_state on session states in which any set of keys was *)
(* already set (to a value other than its default) before the call.        *)

Preset ==
    [ targets |-> <<DemoTarget>>, test_results |-> [error |-> TRUE],
      running_test |-> TRUE, progress |-> 1, vulnerabilities_found |-> 1,
      current_theme |-> "light", current_page |-> "Run Assessment",
      active_threads |-> <<1>>, error_message |-> "Failed to navigate",
      bias_results |-> [model |-> "demo-model"],
      show_bias_results |-> TRUE, carbon_tracking_active |-> TRUE,
      carbon_measurements |-> <<1>>, VALIDATION_STRICTNESS |-> 3,
      reports |-> <<"report">>, insights |-> <<"insight">> ]

InitSession ==
    /\ app \in {"guared", "modular"}
    /\ \E present \in SUBSET Keys : ss = [k \in present |-> Preset[k]]
    /\ InitTasks([steps |-> TotalSteps, submits |-> 0,
                  targets |-> Targets, vectorSets |-> VectorSets,
                  draws |-> BOOLEAN, choose |-> "first", faulty |-> {}])

NextSession == Render

SpecSession == InitSession /\ [][NextSession]_vars

----------------------------------------------------------------------------
(* The render cycle on a session state in which writes of some keys raise  *)
(* (a key bound to a widget, a session without script context): either no  *)
(* key, one key, or every key.                                             *)

FaultSets == { {} } \cup { {k} : k \in Keys } \cup { Keys }

\* The keys a session may already hold when the render cycle starts
FaultPresent == { "targets", "current_page", "error_message", "active_threads" }

InitFault ==
    /\ app \in {"guared", "modular"}
    /\ \E present \in SUBSET FaultPresent : ss = [k \in present |-> Preset[k]]
    /\ \E f \in FaultSets :
          InitTasks([steps |-> TotalSteps, submits |-> 0,
                     targets |-> Targets, vectorSets |-> VectorSets,
                     draws |-> BOOLEAN, choose |-> "first", faulty |-> f])

NextFault == Render

SpecFault == InitFault /\ [][NextFault]_vars

----------------------------------------------------------------------------
(* Citation helpers (guared.py): is_valid_doi_format, validate_doi and     *)
(* retry_request.  A Python value is a record with its type; a str is the  *)
(* sequence of its characters (of its pieces, where no code looks inside). *)

PyNone == [type |-> "NoneType"]
PyBool(b) == [type |-> "bool", truth |-> b]
PyInt(n) == [type |-> "int", number |-> n]
PyStr(chars) == [type |-> "str", chars |-> chars]
Response(status) == [type |-> "Response", status_code |-> status]

\* bool(value) for the values above
Truthy(v) ==
    CASE v.type = "NoneType" -> FALSE
      [] v.type = "bool" -> v.truth
      [] v.type = "int" -> v.number # 0
      [] v.type = "str" -> Len(v.chars) > 0
      [] OTHER -> TRUE

Digit == { "0", "1", "2", "3", "4", "5", "6", "7", "8", "9" }

Letter ==
    { "a", "b", "c", "d", "e", "f", "g", "h", "i", "j", "k", "l", "m",
      "n", "o", "p", "q", "r", "s", "t", "u", "v", "w", "x", "y", "z",
      "A", "B", "C", "D", "E", "F", "G", "H", "I", "J", "K", "L", "M",
      "N", "O", "P", "Q", "R", "S", "T", "U", "V", "W", "X", "Y", "Z" }

\* [-._;()/:A-Z0-9] under re.IGNORECASE
SuffixClass == { "-", ".", "_", ";", "(", ")", "/", ":" } \cup Letter \cup Digit

\* chars[from..to] are all in class
AllIn(chars, from, to, class) == \A n \in from..to : chars[n] \in class

\* ^10.\d{4,9}/[-._;()/:A-Z0-9]+ matched against chars up to position end,
\* with end the position $ matches at
MatchesUpTo(chars, end) ==
    \E digits \in 4..9 :
        /\ end >= 3 + digits + 2
        /\ chars[1] = "1"
        /\ chars[2] = "0"
        /\ chars[3] # "\n"
        /\ AllIn(chars, 4, 3 + digits, Digit)
        /\ chars[4 + digits] = "/"
        /\ AllIn(chars, 5 + digits, end, SuffixClass)

\* re.match(pattern, doi, re.IGNORECASE) is not None: $ matches at the end of
\* the string and before a newline that ends the string
re_match(chars) ==
    \/ MatchesUpTo(chars, Len(chars))
    \/ Len(chars) > 0 /\ chars[Len(chars)] = "\n" /\ MatchesUpTo(chars, Len(chars) - 1)

\* A format check that accepts every non-empty string
is_valid_doi_format_any_str(doi) == Truthy(doi) /\ doi.type = "str"

is_valid_doi_format(doi) ==
    IF ~Truthy(doi) \/ doi.type # "str" THEN FALSE ELSE re_match(doi.chars)

\* The DOI arguments explored: strings put together from a registrant prefix,
\* the character after "10", a run of digits, a separator and a suffix, the
\* strings "not-a-doi" and "", and values that are not strings.
DoiHeads == { <<"1", "0">>, <<"1", "1">>, <<" ", "1", "0">> }
DoiDots == { ".", "X", "\n" }
DigitRun(k) == [n \in 1..k |-> <<"1", "2", "3", "4", "5", "6", "7", "8", "9", "0">>[n]]
DoiDigitRuns == { DigitRun(k) : k \in {3, 4, 9, 10} }
DoiSeparators == { "/", "-" }
DoiSuffixes ==
    { << >>, <<"a", "b", "c">>, <<"A", "(", "1", ")">>, <<"a", " ", "b">>, <<"a", "\n">> }

NotADoi == <<"n", "o", "t", "-", "a", "-", "d", "o", "i">>

DoiValues ==
    { PyStr(head \o <<dot>> \o run \o <<sep>> \o suffix) :
        head \in DoiHeads, dot \in DoiDots, run \in DoiDigitRuns,
        sep \in DoiSeparators, suffix \in DoiSuffixes }
    \cup { PyStr(NotADoi), PyStr(<< >>), PyNone, PyInt(10), PyInt(0) }

RequestException == [type |-> "RequestException"]

\* What one requests.head / requests.get call can do: return a response with
\* some status code or raise a requests.RequestException
Outcomes == { Response(200), Response(404), Response(500), RequestException }

Methods == { "head", "get", "post" }

\* f"https://doi.org/{doi}"
DoiUrl(doi) == <<"https://doi.org/">> \o doi.chars

ArticleUrl == <<"https://example.org/article">>

\* A loop that runs for attempt = 0..retries
InRangeInclusive(attempt, retries) == attempt <= retries

\* for attempt in range(retries)
InRange(attempt, retries) == attempt < retries

\* time.sleep(2 ** attempt)
Backoff(attempt) == 2 ^ attempt

RequestEvent(attempt, outcome) ==
    [ev |-> "request", attempt |-> attempt, outcome |-> outcome, seconds |-> 0]

SleepEvent(attempt) ==
    [ev |-> "sleep", attempt |-> attempt, outcome |-> PyNone, seconds |-> Backoff(attempt)]

\* retry_request returns response; validate_doi returns response is not None
Return(c, response) ==
    [c EXCEPT !.pc = "done",
              !.response = response,
              !.returned = IF c.fn = "validate_doi"
                           THEN PyBool(response # PyNone)
                           ELSE response]

\* The head of the for loop: the next attempt, or return None
LoopHead(c) == IF InRange(c.attempt, c.retries) THEN c ELSE Return(c, PyNone)

\* retry_request(url, method, retries) is called
RetryRequest(url, method, retries) ==
    /\ call.pc = "idle"
    /\ call' = LoopHead([fn |-> "retry_request", doi |-> PyNone, url |-> url,
                         method |-> method, retries |-> retries, attempt |-> 0,
                         trace |-> << >>, pc |-> "request",
                         response |-> PyNone, returned |-> PyNone])
    /\ UNCHANGED <<app, cfg, ss, arg, pc, i, results, fut, written, exc, cancelAt,
                   cleanup_log, rendered>>

\* validate_doi(doi) is called: the format check, then retry_request(url, 'head')
ValidateDoi(doi) ==
    /\ call.pc = "idle"
    /\ call' = IF ~is_valid_doi_format(doi)
               THEN [fn |-> "validate_doi", doi |-> doi, url |-> << >>,
                     method |-> None, retries |-> 0, attempt |-> 0,
                     trace |-> << >>, pc |-> "done",
                     response |-> PyNone, returned |-> PyBool(FALSE)]
               ELSE LoopHead([fn |-> "validate_doi", doi |-> doi, url |-> DoiUrl(doi),
                              method |-> "head", retries |-> DefaultRetries,
                              attempt |-> 0, trace |-> << >>, pc |-> "request",
                              response |-> PyNone, returned |-> PyNone])
    /\ UNCHANGED <<app, cfg, ss, arg, pc, i, results, fut, written, exc, cancelAt,
                   cleanup_log, rendered>>

\* One iteration of the loop of retry_request; outcome is what the request does.
Attempt(outcome) ==
    /\ call.pc = "request"
    /\ LET sent == [call EXCEPT !.trace = Append(@, RequestEvent(call.attempt, outcome))]
       IN  call' =
             IF call.method \notin {"head", "get"}
             THEN Return(call, PyNone)
             ELSE IF outcome = RequestException
             THEN LoopHead([sent EXCEPT !.trace = Append(@, SleepEvent(call.attempt)),
                                        !.attempt = @ + 1])
             ELSE IF outcome.status_code = 200
             THEN Return(sent, outcome)
             ELSE LoopHead([sent EXCEPT !.attempt = @ + 1])
    /\ UNCHANGED <<app, cfg, ss, arg, pc, i, results, fut, written, exc, cancelAt,
                   cleanup_log, rendered>>

InitCite ==
    /\ app = "guared"
    /\ ss = EmptyDict
    /\ InitTasks([steps |-> TotalSteps, submits |-> 0,
                  targets |-> Targets, vectorSets |-> VectorSets,
                  draws |-> BOOLEAN, choose |-> "first", faulty |-> {}])

NextCite ==
    \/ \E url \in {ArticleUrl}, method \in Methods, retries \in 0..MaxRetries :
          RetryRequest(url, method, retries)
    \/ \E doi \in DoiValues : ValidateDoi(doi)
    \/ \E outcome \in Outcomes : Attempt(outcome)

\* A request returns or times out (timeout=5) and time.sleep returns
CiteFairness == WF_vars(\E outcome \in Outcomes : Attempt(outcome))

SpecCite == InitCite /\ [][NextCite]_vars /\ CiteFairness

----------------------------------------------------------------------------
(* Display helpers: get_theme and card (guared.py; theme.py and            *)
(* ui_components.py).  An HTML string is the sequence of its pieces.       *)

themes ==
    [ dark  |-> [bg_color |-> "#121212", card_bg |-> "#1E1E1E", primary |-> "#003b7a",
                 secondary |-> "#BB86FC", accent |-> "#03DAC6", warning |-> "#FF9800",
                 error |-> "#CF6679", text |-> "#FFFFFF"],
      light |-> [bg_color |-> "#F5F5F5", card_bg |-> "#FFFFFF", primary |-> "#003b7a",
                 secondary |-> "#7C4DFF", accent |-> "#00BCD4", warning |-> "#FF9800",
                 error |-> "#F44336", text |-> "#212121"] ]

\* themes[name] for the name the program looks up: the palette, or str(e) of
\* the AttributeError / KeyError the lookup raises
ThemeLookup(a, s) ==
    IF a = "guared" /\ "current_theme" \notin DOMAIN s
    THEN [raised |-> MissingKey("current_theme"), palette |-> themes["dark"]]
    ELSE LET name == IF "current_theme" \in DOMAIN s THEN s["current_theme"] ELSE "dark"
         IN  IF name \in DOMAIN themes
             THEN [raised |-> None, palette |-> themes[name]]
             ELSE [raised |-> "'" \o name \o "'", palette |-> themes["dark"]]

\* A get_theme whose fallback is the light palette
get_theme_falls_back_to_light(a, s) ==
    LET r == ThemeLookup(a, s)
    IN  IF r.raised = None THEN r.palette ELSE themes["light"]

\* get_theme(): the palette, the dark palette when the lookup raises
get_theme(a, s) ==
    LET r == ThemeLookup(a, s)
    IN  IF r.raised = None THEN r.palette ELSE themes["dark"]

\* An object whose __format__ raises
Unformattable == [type |-> "object", error |-> "cannot format"]

\* format(value, ''): the text an f-string inserts for value, or str(e)
Format(v) ==
    CASE v.type = "NoneType" -> [raised |-> None, text |-> <<"None">>]
      [] v.type = "str" -> [raised |-> None, text |-> v.chars]
      [] v.type = "int" -> [raised |-> None, text |-> <<ToString(v.number)>>]
      [] v.type = "bool" -> [raised |-> None, text |-> <<IF v.truth THEN "True" ELSE "False">>]
      [] OTHER -> [raised |-> v.error, text |-> << >>]

\* card_class after the if / elif chain
CardClass(card_type) ==
    CASE card_type = "warning" -> "card warning-card"
      [] card_type = "error" -> "card error-card"
      [] card_type = "success" -> "card success-card"
      [] OTHER -> "card"

\* The except branch of card: the placeholder
CardPlaceholder(a, message) ==
    IF a = "guared"
    THEN << "<div class=\"card error-card\"><div class=\"card-title\">",
            "Error Rendering Card",
            "</div><p>Failed to render card content: ", message, "</p></div>" >>
    ELSE << "<div class='card error-card'>Error: ", message, "</div>" >>

\* card(title, content, card_type): the HTML it returns
card(a, s, title, content, card_type) ==
    LET t == Format(title)
        c == Format(content)
    IN  IF t.raised # None THEN CardPlaceholder(a, t.raised)
        ELSE IF c.raised # None THEN CardPlaceholder(a, c.raised)
        ELSE IF a = "guared"
        THEN << "<div class=\"", CardClass(card_type), " hover-card\">",
                "<div class=\"card-title\">" >> \o t.text \o << "</div>" >>
             \o c.text \o << "</div>" >>
        ELSE << "<div class=\"", CardClass(card_type), "\">",
                "<div style=\"font-weight:bold; font-size:18px; margin-bottom:10px; color:",
                get_theme(a, s)["primary"], "\">" >> \o t.text \o << "</div>" >>
             \o c.text \o << "</div>" >>

\* The values of current_theme explored
ThemeValues == { "dark", "light", "invalid_theme", "", None }

CardTitles == { PyStr(<<"Test Title">>), PyStr(<<"Error Test">>) }
CardContents == { PyStr(<<"Test Content">>), PyNone, PyInt(0), Unformattable }
CardTypes == { "default", "warning", "error", "success" }

\* get_theme() is called
GetTheme ==
    /\ call' = [fn |-> "get_theme", pc |-> "done", session |-> ss,
                returned |-> get_theme(app, ss)]
    /\ UNCHANGED <<app, cfg, ss, arg, pc, i, results, fut, written, exc, cancelAt,
                   cleanup_log, rendered>>

\* card(title, content, card_type) is called
Card(title, content, card_type) ==
    /\ call' = [fn |-> "card", pc |-> "done", session |-> ss, title |-> title,
                content |-> content, card_type |-> card_type,
                returned |-> card(app, ss, title, content, card_type)]
    /\ UNCHANGED <<app, cfg, ss, arg, pc, i, results, fut, written, exc, cancelAt,
                   cleanup_log, rendered>>

\* The "Toggle Theme" button of the sidebar.  guared.py reads current_theme
\* as an attribute: for an absent key the sidebar's handler catches the
\* AttributeError and nothing is written.
ToggleTheme ==
    /\ app = "guared" => "current_theme" \in DOMAIN ss
    /\ LET current == IF "current_theme" \in DOMAIN ss THEN ss["current_theme"] ELSE "dark"
       IN  ss' = SetKey(ss, "current_theme", IF current = "dark" THEN "light" ELSE "dark")
    /\ UNCHANGED <<app, cfg, arg, pc, i, results, fut, written, exc, cancelAt,
                   cleanup_log, rendered, call>>

InitUi ==
    /\ app \in {"guared", "modular"}
    /\ ss \in {EmptyDict} \cup { [Defaults EXCEPT !.current_theme = v] : v \in ThemeValues }
    /\ InitTasks([steps |-> TotalSteps, submits |-> 0,
                  targets |-> Targets, vectorSets |-> VectorSets,
                  draws |-> BOOLEAN, choose |-> "first", faulty |-> {}])

NextUi ==
    \/ GetTheme
    \/ \E title \in CardTitles, content \in CardContents, card_type \in CardTypes :
          Card(title, content, card_type)
    \/ ToggleTheme

SpecUi == InitUi /\ [][NextUi]_vars

----------------------------------------------------------------------------
(* Citation formatting (guared.py): format_authors_apa and format_citation. *)
(* A str is the sequence of its characters; a dict is a function from its   *)
(* keys.                                                                    *)

MaxAuthors == 3          \* longest author list put together from AuthorValues

PyList(items) == [type |-> "list", items |-> items]

\* The elements of parts, each followed by sep except the last: sep.join(parts)
RECURSIVE Join(_, _)
Join(sep, parts) ==
    IF Len(parts) = 0 THEN << >>
    ELSE IF Len(parts) = 1 THEN parts[1]
    ELSE parts[1] \o sep \o Join(sep, Tail(parts))

\* chars.split(): the maximal runs of characters other than whitespace
RECURSIVE Split(_)
Split(chars) ==
    IF chars = << >> THEN << >>
    ELSE IF Head(chars) = " " THEN Split(Tail(chars))
    ELSE LET rest == Split(Tail(chars))
         IN  IF Len(chars) > 1 /\ chars[2] # " "
             THEN <<(<<Head(chars)>> \o Head(rest))>> \o Tail(rest)
             ELSE <<(<<Head(chars)>>)>> \o rest

\* dict.get(key, default)
Get(d, key, default) == IF key \in DOMAIN d THEN d[key] ELSE default

\* ''.join([name[0] + '.' for name in author.get('given', '').split()])
Initials(author) ==
    LET names == Split(Get(author, "given", << >>))
    IN  Join(<< >>, [n \in 1..Len(names) |-> <<names[n][1], ".">>])

\* f"{last_name}, {initials}"
AuthorEntry(author) == Get(author, "family", << >>) \o <<",", " ">> \o Initials(author)

Anonymous == <<"A", "n", "o", "n", "y", "m", "o", "u", "s">>

\* A format_authors_apa that joins the last author with a comma only
format_authors_apa_without_ampersand(authors) ==
    LET authors_list == [n \in 1..Len(authors) |-> AuthorEntry(authors[n])]
    IN  IF Len(authors) = 0 THEN Anonymous
        ELSE Join(<<",", " ">>, authors_list)

format_authors_apa(authors) ==
    LET authors_list == [n \in 1..Len(authors) |-> AuthorEntry(authors[n])]
        last == authors_list[Len(authors_list)]
    IN  IF Len(authors) = 0 THEN Anonymous
        ELSE IF Len(authors_list) = 1 THEN authors_list[1]
        ELSE IF Len(authors_list) <= 20
        THEN Join(<<",", " ">>, SubSeq(authors_list, 1, Len(authors_list) - 1))
             \o <<",", " ", "&", " ">> \o last
        ELSE Join(<<",", " ">>, SubSeq(authors_list, 1, 19)) \o <<",", " ", ".", ".", ".", " ">> \o last

\* The decimal digits of a natural number: what an f-string inserts for an int
RECURSIVE Decimal(_)
Decimal(n) ==
    LET d == <<"0", "1", "2", "3", "4", "5", "6", "7", "8", "9">>[(n % 10) + 1]
    IN  IF n < 10 THEN <<d>> ELSE Decimal(n \div 10) \o <<d>>

\* date_parts[0][0] of article[key] when the key is present, its value is
\* truthy and holds a non-empty first entry of 'date-parts'; otherwise 0
\* (a falsy year)
YearIn(article, key) ==
    IF key \in DOMAIN article /\ DOMAIN article[key] # {}
       /\ "date-parts" \in DOMAIN article[key]
       /\ Len(article[key]["date-parts"]) > 0
       /\ Len(article[key]["date-parts"][1]) > 0
    THEN article[key]["date-parts"][1][1]
    ELSE 0

\* year after the three lookups: published-print, then published-online,
\* then issued, then 'n.d.'
YearText(article) ==
    LET print  == YearIn(article, "published-print")
        online == YearIn(article, "published-online")
        issued == YearIn(article, "issued")
    IN  IF print # 0 THEN Decimal(print)
        ELSE IF online # 0 THEN Decimal(online)
        ELSE IF issued # 0 THEN Decimal(issued)
        ELSE <<"n", ".", "d", ".">>

\* article.get(key, [''])[0] if isinstance(article.get(key, []), list)
\* else article.get(key, '')
FirstOrText(article, key) ==
    IF key \notin DOMAIN article THEN << >>
    ELSE IF article[key].type = "list" THEN article[key].items[1]
    ELSE article[key].chars

\* format_citation(article): None for an empty article, else the citation
format_citation(article) ==
    IF DOMAIN article = {} THEN PyNone
    ELSE LET authors_str == format_authors_apa(Get(article, "author", << >>))
             title   == FirstOrText(article, "title")
             journal == FirstOrText(article, "container-title")
             doi     == Get(article, "DOI", << >>)
         IN  PyStr(authors_str \o <<" ", "(">> \o YearText(article) \o <<")", ".", " ">>
                   \o title
                   \o (IF Len(journal) > 0 THEN <<".", " ">> \o journal ELSE << >>)
                   \o (IF Len(doi) > 0 THEN <<".", " ", "h", "t", "t", "p", "s", ":", "/", "/", "d", "o", "i", ".", "o", "r", "g", "/">> \o doi ELSE << >>))

Smith == [family |-> <<"S", "m", "i", "t", "h">>, given |-> <<"J", "o", "h", "n">>]
Jones == [family |-> <<"J", "o", "n", "e", "s">>, given |-> <<"A", "l", "i", "c", "e">>]
TwoGivenNames == [family |-> <<"L", "e", "e">>, given |-> <<"M", "a", "r", "y", " ", " ", "A", "n", "n">>]
FamilyOnly == [family |-> <<"P", "l", "a", "t", "o">>]

AuthorValues == { Smith, Jones, TwoGivenNames, FamilyOnly }

\* An author list of more than 20 entries
ManyAuthors == [n \in 1..21 |-> IF n = 21 THEN Jones ELSE Smith]

AuthorLists ==
    UNION { [1..n -> AuthorValues] : n \in 0..MaxAuthors } \cup { ManyAuthors }

TestDoi == <<"1", "0", ".", "1", "2", "3", "4", "/", "t", "e", "s", "t">>

DateParts(year) == [k \in {"date-parts"} |-> <<(<<year>>)>>]
NoDateParts == [k \in {"date-parts"} |-> <<(<< >>)>>]

\* key present with one of values, or absent
Optional(key, values) == { [k \in {key} |-> v] : v \in values } \cup { EmptyDict }

\* The union of two dicts with disjoint keys
Merge(d, e) == [k \in (DOMAIN d) \cup (DOMAIN e) |-> IF k \in DOMAIN d THEN d[k] ELSE e[k]]

\* The articles explored: the empty article among them
Articles ==
    { Merge(a, Merge(t, Merge(p, Merge(s, Merge(j, d))))) :
        a \in Optional("author", AuthorLists),
        t \in Optional("title", { PyList(<<<<"T", "e", "s", "t", " ", "A", "r", "t", "i", "c", "l", "e">>>>), PyStr(<<"T", "e", "s", "t", " ", "A", "r", "t", "i", "c", "l", "e">>) }),
        p \in Optional("published-print", { DateParts(1999) }),
        s \in Optional("issued", { DateParts(2023), NoDateParts }),
        j \in Optional("container-title", { PyList(<<<<"J", "o", "u", "r", "n", "a", "l", " ", "o", "f", " ", "T", "e", "s", "t", "i", "n", "g">>>>) }),
        d \in Optional("DOI", { TestDoi, << >> }) }

\* format_authors_apa(authors) is called
FormatAuthorsApa(authors) ==
    /\ call.pc = "idle"
    /\ call' = [fn |-> "format_authors_apa", pc |-> "done", authors |-> authors,
                returned |-> PyStr(format_authors_apa(authors))]
    /\ UNCHANGED <<app, cfg, ss, arg, pc, i, results, fut, written, exc, cancelAt,
                   cleanup_log, rendered>>

\* format_citation(article) is called
FormatCitation(article) ==
    /\ call.pc = "idle"
    /\ call' = [fn |-> "format_citation", pc |-> "done", article |-> article,
                returned |-> format_citation(article)]
    /\ UNCHANGED <<app, cfg, ss, arg, pc, i, results, fut, written, exc, cancelAt,
                   cleanup_log, rendered>>

InitFormat ==
    /\ app = "guared"
    /\ ss = EmptyDict
    /\ InitTasks([steps |-> TotalSteps, submits |-> 0,
                  targets |-> Targets, vectorSets |-> VectorSets,
                  draws |-> BOOLEAN, choose |-> "first", faulty |-> {}])

NextFormat ==
    \/ \E authors \in AuthorLists : FormatAuthorsApa(authors)
    \/ \E article \in Articles : FormatCitation(article)

SpecFormat == InitFormat /\ [][NextFormat]_vars

----------------------------------------------------------------------------
(* The session of Spec with worker threads that are scheduled and sleeps   *)
(* that return.                                                            *)

\* While some work item can take a step, some work item does: the executor
\* runs its threads and time.sleep(duration / total_steps) returns.
LifeFairness == WF_vars(WorkerStep)

SpecLife == Init /\ [][Next]_vars /\ LifeFairness

----------------------------------------------------------------------------
(* generate_insight (guared.py): the completion request and its retries.   *)

InsightAttempts == 3     \* for attempt in range(3)

\* part in chars
Substring(part, chars) ==
    \E k \in 0..(Len(chars) - Len(part)) : SubSeq(chars, k + 1, k + Len(part)) = part

Whitespace == { " ", "\n" }

\* chars.strip()
RECURSIVE Strip(_)
Strip(chars) ==
    IF chars = << >> THEN chars
    ELSE IF Head(chars) \in Whitespace THEN Strip(Tail(chars))
    ELSE IF chars[Len(chars)] \in Whitespace THEN Strip(SubSeq(chars, 1, Len(chars) - 1))
    ELSE chars

\* openai.ChatCompletion.create returns a response with this content
Completion(content) == [type |-> "Completion", content |-> content]

\* openai.ChatCompletion.create raises an exception with str(e) = message
ApiError(message) == [type |-> "Exception", message |-> message]

RateLimitError == <<"R", "a", "t", "e", "L", "i", "m", "i", "t", "E", "r", "r", "o", "r">>

\* What one call of the completion API can do
CompletionOutcomes ==
    { Completion(<<" ", "S", "h", "o", "r", "t", " ", "i", "n", "s", "i", "g", "h", "t", ".",
            "\n">>),
      Completion(<<"E", "r", "r", "o", "r", " ", "b", "u", "d", "g", "e", "t", " ", "i", "s",
              " ", "l", "o", "w">>),
      ApiError(<<"R", "a", "t", "e", "L", "i", "m", "i", "t", "E", "r", "r", "o", "r", ":", " ",
              "s", "l", "o", "w", " ", "d", "o", "w", "n">>),
      ApiError(<<"r", "a", "t", "e", " ", "l", "i", "m", "i", "t", " ", "r", "e", "a", "c", "h",
              "e", "d">>),
      ApiError(<<"R", "e", "q", "u", "e", "s", "t", " ", "t", "i", "m", "e", "d", " ", "o", "u",
              "t">>),
      ApiError(<< >>) }

InsightUsers == { "analyst", "guest" }
InsightCategories == { "security", "sustainability", "bias" }

\* A handler that retries after every failure
ShouldRetryAnyFailure(message, attempt) == attempt < InsightAttempts - 1

\* if "RateLimitError" in str(e) and attempt < 2
ShouldRetry(message, attempt) ==
    Substring(RateLimitError, message) /\ attempt < InsightAttempts - 1

ImportErrorText == <<"E", "r", "r", "o", "r", ":", " ", "O", "p", "e", "n", "A", "I", " ", "m",
        "o", "d", "u", "l", "e", " ", "n", "o", "t", " ", "a", "v", "a", "i", "l", "a", "b",
        "l", "e", ".", " ", "P", "l", "e", "a", "s", "e", " ", "i", "n", "s", "t", "a", "l",
        "l", " ", "i", "t", " ", "o", "r", " ", "c", "h", "e", "c", "k", " ", "y", "o", "u",
        "r", " ", "A", "P", "I", " ", "k", "e", "y", " ", "c", "o", "n", "f", "i", "g", "u",
        "r", "a", "t", "i", "o", "n", ".">>
AllAttemptsFailedText == <<"E", "r", "r", "o", "r", ":", " ", "U", "n", "a", "b", "l", "e", " ",
        "t", "o", " ", "g", "e", "n", "e", "r", "a", "t", "e", " ", "i", "n", "s", "i", "g",
        "h", "t", " ", "a", "f", "t", "e", "r", " ", "m", "u", "l", "t", "i", "p", "l", "e",
        " ", "a", "t", "t", "e", "m", "p", "t", "s", ".">>

\* f"Error generating insight: {str(e)}"
ErrorGeneratingInsight(message) == <<"E", "r", "r", "o", "r", " ", "g", "e", "n", "e", "r", "a",
        "t", "i", "n", "g", " ", "i", "n", "s", "i", "g", "h", "t", ":", " ">> \o message

\* The function returns value
InsightReturn(c, value) == [c EXCEPT !.pc = "done", !.returned = PyStr(value)]

\* The head of the for loop: the next attempt, or the return after the loop
InsightLoopHead(c) ==
    IF c.attempt < InsightAttempts THEN c ELSE InsightReturn(c, AllAttemptsFailedText)

\* generate_insight(user, category, ...) is called; importable: import openai
\* succeeds
GenerateInsight(user, category, importable) ==
    /\ call.pc = "idle"
    /\ LET c == [fn |-> "generate_insight", user |-> user, category |-> category,
                 importable |-> importable, attempt |-> 0, trace |-> << >>,
                 pc |-> "request", returned |-> PyNone]
       IN  call' = IF importable THEN InsightLoopHead(c)
                   ELSE InsightReturn(c, ImportErrorText)
    /\ UNCHANGED <<app, cfg, ss, arg, pc, i, results, fut, written, exc, cancelAt,
                   cleanup_log, rendered>>

\* One iteration of the loop; outcome is what openai.ChatCompletion.create does
CreateCompletion(outcome) ==
    /\ call.fn = "generate_insight"
    /\ call.pc = "request"
    /\ LET sent == [call EXCEPT !.trace = Append(@, RequestEvent(call.attempt, outcome))]
       IN  call' =
             IF outcome.type = "Completion"
             THEN InsightReturn(sent, Strip(outcome.content))
             ELSE IF ShouldRetry(outcome.message, call.attempt)
             THEN InsightLoopHead([sent EXCEPT !.trace = Append(@, SleepEvent(call.attempt)),
                                               !.attempt = @ + 1])
             ELSE InsightReturn(sent, ErrorGeneratingInsight(outcome.message))
    /\ UNCHANGED <<app, cfg, ss, arg, pc, i, results, fut, written, exc, cancelAt,
                   cleanup_log, rendered>>

InitInsight ==
    /\ app = "guared"
    /\ ss = EmptyDict
    /\ InitTasks([steps |-> TotalSteps, submits |-> 0,
                  targets |-> Targets, vectorSets |-> VectorSets,
                  draws |-> BOOLEAN, choose |-> "first", faulty |-> {}])

NextInsight ==
    \/ \E user \in InsightUsers, category \in InsightCategories, importable \in BOOLEAN :
          GenerateInsight(user, category, importable)
    \/ \E outcome \in CompletionOutcomes : CreateCompletion(outcome)

SpecInsight == InitInsight /\ [][NextInsight]_vars

----------------------------------------------------------------------------
(* The session of Spec in which nobody requests a cancellation: the only   *)
(* writes of running_test are those of run_mock_test itself.               *)

NextNoCancel ==
    \/ Render
    \/ ClearError
    \/ \E t \in Tasks, target \in cfg.targets, test_vectors \in cfg.vectorSets :
          Submit(t, target, test_vectors)
    \/ \E t \in Tasks : Start(t)
    \/ \E t \in Tasks : Check(t)
    \/ \E t \in Tasks, draw \in cfg.draws : Tick(t, draw)

SpecNoCancel == Init /\ [][NextNoCancel]_vars

----------------------------------------------------------------------------
(* Properties *)

Last(seq) == seq[Len(seq)]

NonDecreasing(seq) == \A m, n \in 1..Len(seq) : m <= n => seq[m] <= seq[n]

Done(t) == pc[t] = "done"

\* The run of t ended with a result of the normal shape
NormalResult(t) == Done(t) /\ fut[t].exception = None /\ "summary" \in DOMAIN fut[t].result

\* The run of t ended with a result of the error shape
ErrorShaped(t) == Done(t) /\ fut[t].exception = None /\ "error" \in DOMAIN fut[t].result

\* Somebody other than t cleared running_test while t was running
Cancelled(t) == cancelAt[t] # -1

\* C1 as stated: the values a run writes to progress are non-decreasing, and
\* the last value written is 1.0 (total_steps/total_steps) if and only if
\* nobody else cleared running_test while the run was in progress.
C1_EndsAtOneIffNotCancelled ==
    \A t \in Tasks :
        /\ NonDecreasing(written[t])
        /\ Done(t) => ((Last(written[t]) = cfg.steps) <=> ~Cancelled(t))

\* C1 amended: the values a run writes to progress are non-decreasing, and a
\* run that was neither cancelled nor ended by an exception ends with the
\* last value written equal to 1.0; the converse does not hold.
C1_EndsAtOneIfNotCancelledNorFailed ==
    \A t \in Tasks :
        /\ NonDecreasing(written[t])
        /\ (Done(t) /\ ~Cancelled(t) /\ exc[t] = None) => Last(written[t]) = cfg.steps

C1_Witness ==
    \E t \in Tasks :
        /\ Done(t) /\ ~Cancelled(t) /\ exc[t] = None
        /\ Len(written[t]) = cfg.steps + 1
        /\ Last(written[t]) = cfg.steps

\* C2 as stated: when running_test is cleared while a run has completed k
\* ticks, the run writes progress at most once more and never writes a value
\* above (k+1)/total_steps.
C2_CancelStopsWithinOneTick ==
    \A t \in Tasks :
        Cancelled(t) =>
            /\ Len(written[t]) <= cancelAt[t] + 2
            /\ \A n \in 1..Len(written[t]) : written[t][n] <= cancelAt[t] + 1

\* C3: whenever a run ends (completion, cancellation or exception)
\* running_test is false as it returns, and while no work item is running or
\* queued running_test is false.
C3_RunningFlagCleared ==
    /\ [][\A t \in Tasks : (~Done(t) /\ Done(t)') => ss'["running_test"] = FALSE]_vars
    /\ []((Keys \subseteq DOMAIN ss /\ Unfinished = {}) => ss["running_test"] = FALSE)

C3_Witness ==
    /\ Keys \subseteq DOMAIN ss
    /\ Unfinished = {}
    /\ ss["running_test"] = FALSE
    /\ \E t \in Tasks : ErrorShaped(t)
    /\ \E t \in Tasks : NormalResult(t) /\ Cancelled(t)

\* The severity weights as the specification lists them
TableWeight(severity) ==
    IF severity = "low" THEN 1
    ELSE IF severity = "medium" THEN 2
    ELSE IF severity = "high" THEN 3
    ELSE IF severity = "critical" THEN 5
    ELSE 1

RECURSIVE WeightSum(_)
WeightSum(vulnerabilities) ==
    IF vulnerabilities = << >> THEN 0
    ELSE TableWeight(Head(vulnerabilities).severity) + WeightSum(Tail(vulnerabilities))

\* C4: during a run and in the returned result, summary.risk_score is the sum
\* of the table weights (low 1, medium 2, high 3, critical 5, otherwise 1) of
\* the vulnerabilities appended so far.
C4_RiskScoreIsWeightSum ==
    \A t \in Tasks :
        /\ Running(t) =>
              results[t].summary.risk_score = WeightSum(results[t].vulnerabilities)
        /\ NormalResult(t) =>
              fut[t].result.summary.risk_score = WeightSum(fut[t].result.vulnerabilities)

C4_Witness ==
    \E t \in Tasks :
        /\ NormalResult(t)
        /\ Len(fut[t].result.vulnerabilities) = 2
        /\ fut[t].result.vulnerabilities[1].severity = "info"
        /\ fut[t].result.vulnerabilities[2].severity = "low"
        /\ fut[t].result.summary.risk_score = 2

\* C5: a run over a non-empty vector set that consumes every tick without an
\* exception returns summary.total_tests = len(test_vectors) * 10.
C5_TotalTestsOnCompletion ==
    \A t \in Tasks :
        (Done(t) /\ i[t] = cfg.steps /\ exc[t] = None /\ Len(arg[t].test_vectors) > 0) =>
            /\ NormalResult(t)
            /\ fut[t].result.summary.total_tests = Len(arg[t].test_vectors) * 10

C5_Witness ==
    \E t \in Tasks :
        /\ Done(t) /\ i[t] = cfg.steps /\ ~Cancelled(t)
        /\ Len(arg[t].test_vectors) = 3
        /\ Len(fut[t].result.vulnerabilities) = 1
        /\ fut[t].result.summary.total_tests = 30

\* C6: initialize_session_state leaves every key that is already present at
\* its value (running_test = true stays true) and only inserts the absent
\* keys, so a second call changes nothing.
C6_InitializeNeverOverwrites ==
    LET once == initialize_session_state(ss)
    IN  /\ \A k \in DOMAIN ss : once[k] = ss[k]
        /\ DOMAIN once = (DOMAIN ss) \cup Keys
        /\ initialize_session_state(once) = once

C6_Witness ==
    /\ DOMAIN ss = Keys
    /\ Tasks = {}
    /\ ss["running_test"] = TRUE
    /\ ss["error_message"] = Preset["error_message"]
    /\ ss["progress"] = Defaults["progress"]
    /\ ss["current_theme"] = Defaults["current_theme"]

\* C7 as stated: after cleanup_threads the tracked list holds exactly the
\* previously tracked handles whose task has not finished.
C7_CleanupPrunesFinished ==
    ("active_threads" \in DOMAIN ss) =>
        cleanup_threads(app, ss, Unfinished).ss["active_threads"]
            = SelectSeq(ss["active_threads"], LAMBDA h : h \in Unfinished)

\* C8: cleanup_threads changes no session-state key other than
\* active_threads, raises nothing to the render cycle, and a second call
\* leaves the state as the first left it.
C8_CleanupFrameAndIdempotent ==
    LET first  == cleanup_threads(app, ss, Unfinished)
        second == cleanup_threads(app, first.ss, Unfinished)
    IN  /\ first.raised = None
        /\ (DOMAIN first.ss) \ {"active_threads"} = (DOMAIN ss) \ {"active_threads"}
        /\ \A k \in (DOMAIN ss) \ {"active_threads"} : first.ss[k] = ss[k]
        /\ second.raised = None
        /\ second.ss = first.ss

C8_Witness ==
    /\ cleanup_log = "Error cleaning up threads: " \o AttributeErrorIsAlive
    /\ Keys \subseteq DOMAIN ss
    /\ ss["running_test"] = TRUE
    /\ ss["progress"] > 0
    /\ \E t \in Tasks : Done(t) /\ t \in { ss["active_threads"][n] : n \in 1..Len(ss["active_threads"]) }

C10_ExceptionsCaughtInTask ==
    /\ [](\A t \in Tasks :
            /\ Done(t) => fut[t].exception = None
            /\ exc[t] # None =>
                  /\ ErrorShaped(t)
                  /\ fut[t].result.error = TRUE
                  /\ fut[t].result.error_message = exc[t])
    /\ [][\A t \in Tasks : (exc[t] = None /\ exc'[t] # None) =>
              ss'["error_message"] = "Test execution failed: " \o exc'[t]]_vars

C10_Witness ==
    /\ \E t \in Tasks : exc[t] = KeyErrorSeverity /\ ErrorShaped(t)
    /\ \E t \in Tasks : exc[t] = KeyErrorName /\ ErrorShaped(t)
    /\ ss["error_message"] \in { "Test execution failed: " \o KeyErrorSeverity,
                                 "Test execution failed: " \o KeyErrorName }

\* C11 as stated: a run ended by an exception produces a result that carries
\* error = true, error_message = str(e) and a timestamp, and carries neither
\* summary nor vulnerabilities.
C11_ErrorResultShape ==
    \A t \in Tasks :
        (Done(t) /\ exc[t] # None) =>
            /\ fut[t].exception = None
            /\ {"error", "error_message", "timestamp"} \subseteq DOMAIN fut[t].result
            /\ fut[t].result.error = TRUE
            /\ fut[t].result.error_message = exc[t]
            /\ {"summary", "vulnerabilities"} \cap DOMAIN fut[t].result = {}

\* C12 as stated: when a run finishes, the task has written its result object
\* to test_results in the session state, so the result can be read there
\* without the value held by the executor handle.
C12_ResultWrittenToSessionState ==
    [][\A t \in Tasks :
          (~Done(t) /\ Done(t)') => ss'["test_results"] = fut'[t].result]_vars

\* vulnerability v refers to an entry of test_vectors by id, with its severity
FromVectorSet(v, test_vectors) ==
    \E n \in 1..Len(test_vectors) :
        /\ "severity" \in DOMAIN test_vectors[n]
        /\ v.test_vector = test_vectors[n].id
        /\ v.severity = test_vectors[n].severity

\* The vulnerabilities list of t (in progress or returned) after ticks ticks
BoundedByTicks(vulnerabilities, ticks, test_vectors) ==
    /\ Len(vulnerabilities) \in 0..cfg.steps
    /\ Len(vulnerabilities) <= ticks
    /\ \A n \in 1..Len(vulnerabilities) :
          /\ FromVectorSet(vulnerabilities[n], test_vectors)
          /\ test_vectors = get_mock_test_vectors =>
                vulnerabilities[n].severity \in {"high", "medium", "critical"}

\* C20: in every result of a run, in progress or returned, the number of
\* vulnerabilities is between 0 and total_steps and at most the number of
\* ticks completed so far, and every vulnerability carries the id and the
\* severity of an entry of the supplied vector set (high, medium or critical
\* for the built-in catalog).
C20_VulnerabilitiesBoundedByTicks ==
    \A t \in Tasks :
        /\ Running(t) =>
              BoundedByTicks(results[t].vulnerabilities, i[t], arg[t].test_vectors)
        /\ NormalResult(t) =>
              BoundedByTicks(fut[t].result.vulnerabilities, i[t], arg[t].test_vectors)

C20_Witness ==
    \E t \in Tasks :
        /\ NormalResult(t)
        /\ i[t] = cfg.steps
        /\ arg[t].test_vectors = get_mock_test_vectors
        /\ Len(fut[t].result.vulnerabilities) = cfg.steps
        /\ fut[t].result.vulnerabilities[1].test_vector = "prompt_injection"
        /\ fut[t].result.vulnerabilities[2].test_vector = "xss"

\* The keys and defaults as the specification enumerates them
\* (validation_strictness is the key VALIDATION_STRICTNESS)
EnumeratedDefaults ==
    [ targets |-> << >>, test_results |-> << >>, running_test |-> FALSE,
      progress |-> 0, vulnerabilities_found |-> 0, current_theme |-> "dark",
      current_page |-> "Dashboard", active_threads |-> << >>,
      error_message |-> "None", bias_results |-> << >>,
      carbon_tracking_active |-> FALSE, carbon_measurements |-> << >>,
      VALIDATION_STRICTNESS |-> 2, reports |-> << >>, insights |-> << >> ]

\* The enumerated defaults and the default of show_bias_results
EnumeratedAndShowBias == EnumeratedDefaults @@ [show_bias_results |-> FALSE]

\* C13 as stated: a render cycle on an empty session state leaves exactly the
\* enumerated keys with the enumerated defaults, and a render cycle on a
\* state from which keys were deleted leaves every deleted key present with
\* its default.
C13_ExactlyEnumeratedDefaults ==
    [][/\ ss = EmptyDict => ss' = EnumeratedDefaults
       /\ \A k \in Keys \ DOMAIN ss :
             k \in DOMAIN ss' /\ ss'[k] = EnumeratedAndShowBias[k]]_vars

\* C13 amended: a render cycle on an empty session state leaves exactly the
\* enumerated keys and show_bias_results = false (16 keys), each with its
\* default, and a render cycle on a state from which keys were deleted
\* leaves every deleted key present with its default.
C13_EnumeratedDefaultsAndShowBias ==
    [][/\ ss = EmptyDict => ss' = EnumeratedAndShowBias
       /\ \A k \in Keys \ DOMAIN ss :
             k \in DOMAIN ss' /\ ss'[k] = EnumeratedAndShowBias[k]]_vars

C13_Witness ==
    /\ rendered.page = "Dashboard"
    /\ ss = EnumeratedAndShowBias

\* C14 as stated: when an insertion of initialize_session_state raises, the
\* render cycle leaves error_message set to 'Failed to initialize application
\* state: ' + str(e) and goes on to render a page, with no exception reaching
\* the handler of main.
C14_InitFailureSurfacedAndRenderContinues ==
    [][LET r == InitDefaults(ss, Len(KeyOrder))
       IN  r.raised # None =>
             /\ "error_message" \in DOMAIN ss'
             /\ ss'["error_message"] =
                   "Failed to initialize application state: " \o r.raised
             /\ rendered'.critical = None
             /\ rendered'.page # None]_vars

\* The request events of a trace, in order
RequestsOf(trace) == SelectSeq(trace, LAMBDA e : e.ev = "request")

\* C15: retry_request makes at most retries requests (3 by default, as
\* validate_doi calls it), a network error never leaves it and it always
\* returns; what it returns is a response with status 200 or None, and None
\* when no request returned status 200.
C15_RetryBoundedAndReturns200OrNone ==
    /\ [](call.fn \in {"retry_request", "validate_doi"} =>
            /\ Len(RequestsOf(call.trace)) <= call.retries
            /\ call.fn = "validate_doi" => Len(RequestsOf(call.trace)) <= 3
            /\ call.pc = "done" =>
                  /\ call.response # PyNone =>
                        /\ call.response = Response(200)
                        /\ Last(RequestsOf(call.trace)).outcome = call.response
                  /\ (\A n \in 1..Len(call.trace) : call.trace[n].outcome # Response(200))
                        => call.response = PyNone)
    /\ (call.pc = "request") ~> (call.pc = "done")

C15_Witness ==
    /\ call.fn = "retry_request"
    /\ call.pc = "done"
    /\ call.retries = DefaultRetries
    /\ Len(RequestsOf(call.trace)) = 3
    /\ RequestsOf(call.trace)[1].outcome = RequestException
    /\ RequestsOf(call.trace)[2].outcome = Response(404)
    /\ RequestsOf(call.trace)[3].outcome = RequestException
    /\ call.returned = PyNone

\* C16 as stated: between every two consecutive requests of one retry_request
\* call the function sleeps 2^attempt seconds, attempt being the 0-based
\* number of the earlier request, whether that request raised a network
\* error or returned a status other than 200.
C16_BackoffBetweenAttempts ==
    call.fn \in {"retry_request", "validate_doi"} =>
        \A n \in 1..(Len(call.trace) - 1) :
            (call.trace[n].ev = "request" /\ \E m \in (n + 1)..Len(call.trace) :
                                                call.trace[m].ev = "request")
                => /\ call.trace[n + 1].ev = "sleep"
                   /\ call.trace[n + 1].seconds = 2 ^ call.trace[n].attempt

\* Number of digits of chars from position from on
RECURSIVE DigitsFrom(_, _)
DigitsFrom(chars, from) ==
    IF from <= Len(chars) /\ chars[from] \in Digit
    THEN 1 + DigitsFrom(chars, from + 1)
    ELSE 0

\* chars is "10", one character other than a newline, 4 to 9 digits, "/" and
\* one or more characters of [-._;()/:A-Z0-9] in either case
WholeDoi(chars) ==
    /\ Len(chars) >= 3
    /\ chars[1] = "1" /\ chars[2] = "0" /\ chars[3] # "\n"
    /\ LET d == DigitsFrom(chars, 4)
       IN  /\ d \in 4..9
           /\ Len(chars) >= 5 + d
           /\ chars[4 + d] = "/"
           /\ \A n \in (5 + d)..Len(chars) : chars[n] \in SuffixClass

\* The value matches the DOI format ^10.\d{4,9}/[-._;()/:A-Z0-9]+$
\* (case-insensitive; $ also matches before a final newline)
DoiFormat(v) ==
    /\ v.type = "str"
    /\ \/ WholeDoi(v.chars)
       \/ /\ Len(v.chars) > 0
          /\ v.chars[Len(v.chars)] = "\n"
          /\ WholeDoi(SubSeq(v.chars, 1, Len(v.chars) - 1))

\* C17: for a value that does not match the DOI format ('not-a-doi', the
\* empty string, values that are not strings among them) is_valid_doi_format
\* is false and validate_doi returns False without any request; validate_doi
\* issues requests only for values that match the format.
C17_NoRequestForMalformedDoi ==
    call.fn = "validate_doi" =>
        /\ is_valid_doi_format(call.doi) <=> DoiFormat(call.doi)
        /\ call.doi \in {PyStr(NotADoi), PyStr(<< >>), PyNone, PyInt(10)} =>
              ~is_valid_doi_format(call.doi)
        /\ ~DoiFormat(call.doi) =>
              /\ call.pc = "done"
              /\ call.returned = PyBool(FALSE)
              /\ call.trace = << >>
        /\ call.trace # << >> => DoiFormat(call.doi)

C17_Witness ==
    /\ call.fn = "validate_doi"
    /\ call.doi = PyStr(NotADoi)
    /\ call.pc = "done"
    /\ call.returned = PyBool(FALSE)
    /\ call.trace = << >>

\* text is one of the pieces of html
Contains(html, text) == \E n \in 1..Len(html) : html[n] = text

\* C18 as stated: card(title, None) returns the error placeholder, which
\* contains 'Error Rendering Card', and not the normal card markup.
C18_CardWithNoneIsPlaceholder ==
    (call.fn = "card" /\ call.content = PyNone) =>
        /\ Contains(call.returned, "Error Rendering Card")
        /\ ~Contains(call.returned, "None")

\* C19: get_theme returns the palette named by current_theme when that is
\* 'dark' or 'light', and the dark palette for every other value and for an
\* absent key.
C19_ThemeFallsBackToDark ==
    call.fn = "get_theme" =>
        LET present == "current_theme" \in DOMAIN call.session
        IN  /\ (present /\ call.session["current_theme"] = "light") =>
                  /\ call.returned = themes["light"]
                  /\ call.returned["bg_color"] = "#F5F5F5"
            /\ ~(present /\ call.session["current_theme"] = "light") =>
                  /\ call.returned = themes["dark"]
                  /\ call.returned["bg_color"] = "#121212"
            /\ call.returned["primary"] = "#003b7a"

C19_Witness ==
    /\ call.fn = "get_theme"
    /\ "current_theme" \in DOMAIN call.session
    /\ call.session["current_theme"] = "invalid_theme"
    /\ call.returned = themes["dark"]

\* part occurs in chars as a contiguous run of characters
Within(part, chars) ==
    \E k \in 0..(Len(chars) - Len(part)) : SubSeq(chars, k + 1, k + Len(part)) = part

\* chars begins with part
StartsWith(chars, part) ==
    Len(chars) >= Len(part) /\ SubSeq(chars, 1, Len(part)) = part

\* The author list of an article (none when the key is absent)
AuthorsOf(article) == IF "author" \in DOMAIN article THEN article["author"] ELSE << >>

\* C21: format_citation on an article with two authors and a DOI returns a
\* string in which the last author is preceded by ', & ' ('Smith, J., & Jones,
\* A.' for John Smith and Alice Jones) and which contains
\* 'https://doi.org/<DOI>'; on an article without authors the citation names
\* the author as 'Anonymous'.
C21_TwoAuthorsJoinedAndDoiLinked ==
    (call.fn = "format_citation" /\ DOMAIN call.article # {}) =>
        LET authors == AuthorsOf(call.article)
            citation == call.returned.chars
        IN  /\ call.returned.type = "str"
            /\ (Len(authors) = 2 /\ "DOI" \in DOMAIN call.article
                /\ call.article["DOI"] # << >>) =>
                  /\ Within(<<",", " ", "&", " ">> \o authors[2].family \o <<",", " ">>, citation)
                  /\ StartsWith(citation, authors[1].family \o <<",", " ">>)
                  /\ authors = <<Smith, Jones>> => StartsWith(citation, <<"S", "m", "i", "t",
                          "h", ",", " ", "J", ".", ",", " ", "&", " ", "J", "o", "n", "e", "s",
                          ",", " ", "A", ".">>)
                  /\ Within(<<"h", "t", "t", "p", "s", ":", "/", "/", "d", "o", "i", ".", "o",
                          "r", "g", "/">> \o call.article["DOI"], citation)
            /\ Len(authors) = 0 =>
                  /\ StartsWith(citation, <<"A", "n", "o", "n", "y", "m", "o", "u", "s">>)
                  /\ ~Within(<<"&">>, citation)

C21_Witness ==
    /\ call.fn = "format_citation"
    /\ AuthorsOf(call.article) = <<Smith, Jones>>
    /\ "DOI" \in DOMAIN call.article
    /\ call.returned = PyStr(<<"S", "m", "i", "t", "h", ",", " ", "J", ".", ",", " ", "&", " ",
            "J", "o", "n", "e", "s", ",", " ", "A", ".", " ", "(", "2", "0", "2", "3", ")", ".",
            " ", "T", "e", "s", "t", " ", "A", "r", "t", "i", "c", "l", "e", ".", " ", "J", "o",
            "u", "r", "n", "a", "l", " ", "o", "f", " ", "T", "e", "s", "t", "i", "n", "g", ".",
            " ", "h", "t", "t", "p", "s", ":", "/", "/", "d", "o", "i", ".", "o", "r", "g", "/",
            "1", "0", ".", "1", "2", "3", "4", "/", "t", "e", "s", "t">>)

\* The terminal states of the lifecycle, read from what the work item holds
Completed(t) == NormalResult(t) /\ i[t] = cfg.steps
StoppedAtCheck(t) == NormalResult(t) /\ i[t] < cfg.steps
Failed(t) == ErrorShaped(t) /\ exc[t] # None

\* How many of the three terminal states t is in
TerminalCount(t) ==
    Cardinality({ state \in {"Completed", "Cancelled", "Failed"} :
                    \/ state = "Completed" /\ Completed(t)
                    \/ state = "Cancelled" /\ StoppedAtCheck(t)
                    \/ state = "Failed" /\ Failed(t) })

\* Both keys are present in s
HasCounters(s) == {"progress", "vulnerabilities_found"} \subseteq DOMAIN s

\* C22: a work item that has not ended is in none of the terminal states
\* Completed, Cancelled and Failed, and one that has ended is in exactly one;
\* it completes at most total_steps ticks; a started work item eventually
\* ends (threads are scheduled, sleeps return); a work item that has ended
\* writes nothing more, and every change of progress or vulnerabilities_found
\* comes with a write of a work item that has not ended.
C22_LifecycleEndsInOneTerminalState ==
    /\ [](\A t \in Tasks :
            /\ TerminalCount(t) = IF Done(t) THEN 1 ELSE 0
            /\ i[t] <= cfg.steps
            /\ Len(written[t]) <= cfg.steps + 1)
    /\ \A t \in 1..MaxSubmits : (pc[t] \in {"queued", "check", "sleep"}) ~> Done(t)
    /\ [][/\ \A t \in Tasks : Done(t) =>
                /\ written'[t] = written[t]
                /\ fut'[t] = fut[t] /\ i'[t] = i[t] /\ pc'[t] = pc[t]
          /\ (HasCounters(ss) /\ HasCounters(ss')
              /\ (ss'["progress"] # ss["progress"]
                  \/ ss'["vulnerabilities_found"] # ss["vulnerabilities_found"])) =>
                \E u \in Tasks : ~Done(u) /\ written'[u] # written[u]]_vars

C22_Witness ==
    /\ \E t \in Tasks : Completed(t) /\ Len(written[t]) = cfg.steps + 1
    /\ \E t \in Tasks : StoppedAtCheck(t) /\ Cancelled(t)
    /\ ss["progress"] = cfg.steps

\* The ids of vulnerabilities are VULN-1, VULN-2, ... in list order
NumberedInOrder(vulnerabilities) ==
    /\ \A n \in 1..Len(vulnerabilities) : vulnerabilities[n].id = "VULN-" \o ToString(n)
    /\ \A m, n \in 1..Len(vulnerabilities) :
          m # n => vulnerabilities[m].id # vulnerabilities[n].id

\* C23: in every result set, in progress or returned, the ids of the
\* vulnerabilities are VULN-1, VULN-2, ..., VULN-n in order of creation
\* (unique, without gaps), and the numbering of each run starts at VULN-1
\* whatever earlier runs of the session found.
C23_VulnerabilityIdsNumberedPerRun ==
    \A t \in Tasks :
        /\ Running(t) => NumberedInOrder(results[t].vulnerabilities)
        /\ NormalResult(t) => NumberedInOrder(fut[t].result.vulnerabilities)

C23_Witness ==
    \E t, u \in Tasks :
        /\ t < u
        /\ NormalResult(t) /\ Len(fut[t].result.vulnerabilities) = 2
        /\ fut[t].result.vulnerabilities[2].id = "VULN-2"
        /\ NormalResult(u) /\ Len(fut[u].result.vulnerabilities) = 2
        /\ fut[u].result.vulnerabilities[1].id = "VULN-1"

\* Work item t writes progress in this step
WritesProgress(t) == written'[t] # written[t]

\* C24: the values each work item writes to progress are non-decreasing and
\* the cell holds what the last writer wrote; the value read from the cell
\* decreases only when a work item other than the one that wrote the value
\* read before writes (its reset to 0 or a smaller fraction).  That this
\* happens while two work items run is the reachable state C24_Witness.
C24_SharedProgressLastWriterWins ==
    /\ [](\A t \in Tasks : NonDecreasing(written[t]))
    /\ [][/\ \A t \in Tasks :
                WritesProgress(t) =>
                    /\ written'[t] = Append(written[t], ss'["progress"])
                    /\ \A u \in Tasks \ {t} : ~WritesProgress(u)
          /\ ("progress" \in DOMAIN ss /\ ss'["progress"] < ss["progress"]) =>
                \E t, u \in Tasks :
                    /\ t # u
                    /\ WritesProgress(t)
                    /\ written[u] # << >>
                    /\ Last(written[u]) = ss["progress"]]_vars

C24_Witness ==
    \E t, u \in Tasks :
        /\ Running(t) /\ Running(u)
        /\ written[u] = <<0, 1>>
        /\ written[t] = <<0>>
        /\ ss["progress"] = 0

\* The request at position n of the trace failed with a message that contains
\* 'RateLimitError'
RateLimited(event) ==
    /\ event.outcome.type = "Exception"
    /\ Within(<<"R", "a", "t", "e", "L", "i", "m", "i", "t", "E", "r", "r", "o",
            "r">>, event.outcome.message)

\* C25: generate_insight calls the completion API at most 3 times; a request
\* is followed by another one only when it failed with a message containing
\* 'RateLimitError' and fewer than 3 attempts were made, and then after a
\* sleep of 2^attempt seconds; a success or any other failure ends the call;
\* the call never raises: it returns a string, which starts with 'Error'
\* after every failure.
C25_InsightRetriesOnlyOnRateLimit ==
    call.fn = "generate_insight" =>
        LET requests == RequestsOf(call.trace)
        IN  /\ Len(requests) <= 3
            /\ \A n \in 1..Len(call.trace) :
                  call.trace[n].ev = "request" =>
                      IF RateLimited(call.trace[n]) /\ call.trace[n].attempt + 1 < 3
                      THEN /\ n < Len(call.trace)
                           /\ call.trace[n + 1].ev = "sleep"
                           /\ call.trace[n + 1].seconds = 2 ^ call.trace[n].attempt
                           /\ call.pc = "done" =>
                                 /\ n + 1 < Len(call.trace)
                                 /\ call.trace[n + 2].ev = "request"
                      ELSE /\ n = Len(call.trace)
                           /\ call.pc = "done"
            /\ \A n \in 1..Len(requests) : requests[n].attempt = n - 1
            /\ call.pc = "done" =>
                  /\ call.returned.type = "str"
                  /\ (requests = << >> \/ Last(requests).outcome.type = "Exception") =>
                        StartsWith(call.returned.chars, <<"E", "r", "r", "o", "r">>)
                  /\ (requests # << >> /\ Last(requests).outcome.type = "Completion") =>
                        call.returned.chars \in { <<"S", "h", "o", "r", "t", " ", "i", "n", "s",
                                "i", "g", "h", "t", ".">>, <<"E", "r", "r", "o", "r", " ", "b",
                                "u", "d", "g", "e", "t", " ", "i", "s", " ", "l", "o", "w">> }

C25_Witness ==
    /\ call.fn = "generate_insight"
    /\ call.pc = "done"
    /\ Len(RequestsOf(call.trace)) = 3
    /\ Len(call.trace) = 5
    /\ call.trace[4].seconds = 2
    /\ RateLimited(call.trace[5])
    /\ StartsWith(call.returned.chars, <<"E", "r", "r", "o", "r", " ", "g", "e", "n", "e", "r",
            "a", "t", "i", "n", "g", " ", "i", "n", "s", "i", "g", "h", "t", ":", " ">>)

\* C26 as stated: with no cancellation request, a run during which another
\* run ended (and cleared running_test) stops at a per-tick check, so that,
\* unless an exception ended it, its progress never reaches 1.0.
C26_OtherRunAlwaysStopsBelowOne ==
    \A t \in Tasks :
        (Done(t) /\ Cancelled(t) /\ exc[t] = None) =>
            /\ StoppedAtCheck(t)
            /\ Last(written[t]) < cfg.steps

\* C26 amended: with no cancellation request, a run that ends sets
\* running_test to false whatever other runs are in progress, and a run that
\* finds the flag false at a per-tick check stops there with a normal result
\* and has written no progress value of 1.0; a run that has already passed
\* its last check is not stopped.
C26_EndingRunStopsOthersAtTheirNextCheck ==
    [][/\ \A u \in Tasks : (~Done(u) /\ Done(u)') => ss'["running_test"] = FALSE
       /\ \A t \in Tasks :
             (pc[t] = "check" /\ ss["running_test"] = FALSE /\ pc'[t] # pc[t]) =>
                 /\ pc'[t] = "done"
                 /\ fut'[t].exception = None
                 /\ "summary" \in DOMAIN fut'[t].result
                 /\ i'[t] = i[t] /\ i[t] < cfg.steps
                 /\ written'[t] = written[t]
                 /\ \A n \in 1..Len(written[t]) : written[t][n] < cfg.steps]_vars

C26_Witness ==
    \E t, u \in Tasks :
        /\ Completed(u) /\ ~Cancelled(u)
        /\ StoppedAtCheck(t) /\ Cancelled(t)
        /\ Last(written[t]) < cfg.steps
        /\ ss["running_test"] = FALSE

\* C27: whatever running_test holds when a queued work item starts (a
\* cancellation requested while it was queued included), its first step sets
\* running_test to true and progress and vulnerabilities_found to 0; a run
\* during which nobody else clears the flag, and which no exception ends,
\* consumes every tick.
C27_CancellationBeforeStartIsLost ==
    /\ [][\A t \in Tasks :
            (pc[t] = "queued" /\ pc'[t] # "queued" /\ "name" \in DOMAIN arg[t].target) =>
                /\ pc'[t] = "check"
                /\ ss'["running_test"] = TRUE
                /\ ss'["progress"] = 0
                /\ ss'["vulnerabilities_found"] = 0]_vars
    /\ [](\A t \in Tasks :
            (Done(t) /\ ~Cancelled(t) /\ exc[t] = None) =>
                /\ i[t] = cfg.steps
                /\ Len(written[t]) = cfg.steps + 1)

\* A run was in progress when the flag was cleared (one tick done, progress
\* written); the second work item has started since: the flag is true again
\* and both counters are back at 0.
C27_Witness ==
    \E t, u \in Tasks :
        /\ pc[u] = "check" /\ cancelAt[u] = 1 /\ written[u] = <<0, 1>>
        /\ pc[t] = "check" /\ cancelAt[t] = -1 /\ written[t] = <<0>>
        /\ ss["running_test"] = TRUE
        /\ ss["progress"] = 0
        /\ ss["vulnerabilities_found"] = 0

\* The keys of a result of the normal shape
NormalKeys(a) ==
    IF a = "guared"
    THEN {"summary", "vulnerabilities", "test_details", "timestamp", "target"}
    ELSE {"summary", "vulnerabilities", "timestamp", "target"}

\* C28: a run that stopped at a per-tick check returns a result of the normal
\* shape: exactly the keys of a completed run's result (no error key, no
\* cancellation marker), the vulnerabilities found before the stop, and
\* summary.total_tests = len(test_vectors) * 10; the progress it wrote stays
\* below 1.0.
C28_CancelledRunReturnsNormalResult ==
    \A t \in Tasks :
        /\ StoppedAtCheck(t) =>
              /\ DOMAIN fut[t].result = NormalKeys(app)
              /\ DOMAIN fut[t].result.summary =
                    {"total_tests", "vulnerabilities_found", "risk_score"}
              /\ fut[t].result.vulnerabilities = results[t].vulnerabilities
              /\ Len(fut[t].result.vulnerabilities) <= i[t]
              /\ fut[t].result.summary.vulnerabilities_found =
                    Len(fut[t].result.vulnerabilities)
              /\ fut[t].result.summary.total_tests = Len(arg[t].test_vectors) * 10
              /\ Last(written[t]) < cfg.steps
        /\ Completed(t) => DOMAIN fut[t].result = NormalKeys(app)

C28_Witness ==
    \E t \in Tasks :
        /\ StoppedAtCheck(t) /\ Cancelled(t)
        /\ i[t] = 1
        /\ Len(fut[t].result.vulnerabilities) = 1
        /\ fut[t].result.summary.total_tests = 30
        /\ Last(written[t]) = 1

\* Work item t runs over an empty vector set
EmptyVectors(t) == pc[t] # "unsubmitted" /\ arg[t].test_vectors = << >>

\* What holds for a run over an empty vector set whatever tick fails: no
\* vulnerability is ever produced; the tick that draws one raises, the run
\* ends with an error result, error_message set and running_test false; a
\* run that consumes every tick drew none and returns total_tests = 0.
EmptyVectorsNeverYield ==
    /\ [](\A t \in Tasks :
            EmptyVectors(t) =>
                /\ Running(t) => results[t].vulnerabilities = << >>
                /\ NormalResult(t) =>
                      /\ fut[t].result.vulnerabilities = << >>
                      /\ fut[t].result.summary.total_tests = 0
                /\ exc[t] # None =>
                      /\ Failed(t)
                      /\ fut[t].result.error_message = exc[t]
                      /\ i[t] < cfg.steps)
    /\ [][\A t \in Tasks :
            (EmptyVectors(t) /\ exc[t] = None /\ exc'[t] = IndexErrorChoice) =>
                /\ pc[t] = "sleep" /\ pc'[t] = "done"
                /\ ss'["error_message"] = "Test execution failed: " \o IndexErrorChoice
                /\ ss'["running_test"] = FALSE]_vars

\* C29 as stated: over an empty vector set no vulnerability is produced, the
\* first tick that draws one raises and the run ends Failed with an error
\* result, error_message set and running_test false, and with progress left
\* below 1.0; a run in which no tick draws completes with total_tests = 0.
C29_EmptyVectorsFailBelowOne ==
    /\ EmptyVectorsNeverYield
    /\ [](\A t \in Tasks :
            (EmptyVectors(t) /\ exc[t] = IndexErrorChoice) =>
                Last(written[t]) < cfg.steps)

\* C29 amended: as stated, except that progress is left at the value the
\* failing tick wrote before the draw, (k + 1) / total_steps for the tick
\* after k completed ones, which is 1.0 when the failing tick is the last.
C29_EmptyVectorsFailAtTickProgress ==
    /\ EmptyVectorsNeverYield
    /\ [](\A t \in Tasks :
            (EmptyVectors(t) /\ exc[t] = IndexErrorChoice) =>
                /\ Last(written[t]) = i[t] + 1
                /\ Len(written[t]) = i[t] + 2)

C29_Witness ==
    \E t \in Tasks :
        /\ EmptyVectors(t)
        /\ exc[t] = IndexErrorChoice
        /\ Failed(t)
        /\ i[t] = 1
        /\ written[t] = <<0, 1, 2>>
        /\ ss["running_test"] = FALSE
        /\ ss["error_message"] = "Test execution failed: " \o IndexErrorChoice

\* No work item other than t has entered run_mock_test
Alone(t) == \A u \in Tasks \ {t} : written[u] = << >>

\* The summary count of res equals the length of its vulnerabilities list
CountsAgree(res) == res.summary.vulnerabilities_found = Len(res.vulnerabilities)

\* C30: in every result, in progress or returned, summary.vulnerabilities_found
\* equals the length of the vulnerabilities list; while a run is the only one
\* of its session, both equal the session-state cell vulnerabilities_found
\* after every tick and after the run returned.  That the cell differs from
\* the counts of two overlapping runs is the reachable state C30_Witness.
C30_CountersAgreeForSingleRun ==
    \A t \in Tasks :
        /\ Running(t) =>
              /\ CountsAgree(results[t])
              /\ Alone(t) =>
                    ss["vulnerabilities_found"] = Len(results[t].vulnerabilities)
        /\ NormalResult(t) =>
              /\ CountsAgree(fut[t].result)
              /\ Alone(t) =>
                    ss["vulnerabilities_found"] = Len(fut[t].result.vulnerabilities)

\* Two runs overlapped: the first found one vulnerability before the second
\* started and reset the cell, both found two in all, and the cell holds 3.
C30_Witness ==
    \E t, u \in Tasks :
        /\ t # u
        /\ NormalResult(t) /\ NormalResult(u)
        /\ fut[t].result.summary.vulnerabilities_found = 2
        /\ fut[u].result.summary.vulnerabilities_found = 2
        /\ ss["vulnerabilities_found"] = 3

====
